---------------------------- MODULE Spec2Model ----------------------------
(***************************************************************************)
(* pg-tmp: ephemeral PostgreSQL instances over a pool of pre-initialized   *)
(* data directories in the OS temp directory.                              *)
(*                                                                         *)
(* The model follows src/mod.ts (initdb, start, stop and their helpers),   *)
(* src/initdb.ts (the pre-warm helper process) and src/stop.ts (the        *)
(* auto-stop helper process).  Every `await` of the source is a point      *)
(* where other OS processes may run, so every action below is the code     *)
(* between two awaits.  The external tools (initdb, pg_ctl, createdb,      *)
(* psql) are modelled by their effect on the filesystem and the server.    *)
(***************************************************************************)
EXTENDS Integers, FiniteSets, Sequences, TLC

(***************************************************************************)
(* Bounds of the model.                                                    *)
(***************************************************************************)
\* pg_tmp.* directories present in the temp root before the first call
InitDirs == 2
\* client connections a server may hold at once
MaxClients == 1
\* a stop() call's accumulated sleep (seconds) is counted up to this value
MaxSlept == 2

(***************************************************************************)
(* Program constants.                                                      *)
(***************************************************************************)
\* createdb is attempted at most this many times
CreatedbAttempts == 5
\* StartOptions.timeout default (seconds)
DefaultStartTimeout == 60
\* StopOptions.timeout default (seconds)
DefaultStopTimeout == 5
\* StopOptions.initialTimeout default (seconds)
DefaultInitialTimeout == 0
\* the drain loop runs while the sampled count is at least this
DrainThreshold == 2

\* the start() calls: two, so that calls can race
Procs == {1, 2}
NumStarts == Cardinality(Procs)
\* root directories: the initial ones, and for every start() call the one it
\* may create itself and the one its pre-warm process creates
MaxDirs == InitDirs + 2 * NumStarts
Dirs == 1..MaxDirs
NoDir == 0

Me == "me"
Other == "other"

VARIABLES
    root,       \* root[d]: the root directory <tmp>/pg_tmp.<d> exists
    sub,        \* sub[d]: the sub-path <root>/<pgVersion>: absent, empty, cluster
    subOwner,   \* subOwner[d]: uid owning the versioned sub-path
    conf,       \* conf[d]: tuned-settings blocks appended to postgresql.conf
    marker,     \* marker[d]: <root>/NEW: "none", or the uid owning it
    nextDir,    \* next unused mkdtemp name
    server,     \* server[d]: "down", "starting" (pg_ctl start issued), "up"
    testdb,     \* testdb[d]: the database `test` exists in the cluster
    clients,    \* clients[d]: client connections open to the server
    served,     \* served[d]: a client has connected to the server (history)
    launched,   \* launched[d]: start() calls that issued pg_ctl start on d
    st,         \* st[p]: the start() call p
    ic,         \* ic[i]: an initdb() call (inside start(), a pre-warm process, a direct one)
    sp          \* sp[s]: a stop() call (a watcher's, a returned stop(), a direct one)

vars == <<root, sub, subOwner, conf, marker, nextDir, server, testdb, clients,
          served, launched, st, ic, sp>>
fsVars == <<root, sub, subOwner, conf, marker>>
srvVars == <<server, testdb, clients, served>>


(***************************************************************************)
(* Identities of the calls.  An initdb() call is the one start() p makes   *)
(* itself, the one of the pre-warm process p spawned, or a direct call of  *)
(* the API; a stop() call is the one of the watcher p spawned, the stop()  *)
(* returned by start() p, or a direct call of the API.                     *)
(***************************************************************************)
InlineId(p) == p
PrewarmId(p) == NumStarts + p
ApiId == 2 * NumStarts + 1
CallIds == 1..ApiId
WatcherId(p) == p
ReturnedId(p) == NumStarts + p

(***************************************************************************)
(* Paths.  A path is a root directory d followed by `depth` segments named *)
(* after the PostgreSQL version: depth 0 is <root>, depth 1 is             *)
(* <root>/<pgVersion>, depth 2 is <root>/<pgVersion>/<pgVersion>.          *)
(***************************************************************************)
RootPath(d) == [dir |-> d, depth |-> 0]
JoinVersion(path) == [path EXCEPT !.depth = @ + 1]
Dirname(path) == [path EXCEPT !.depth = @ - 1]

\* a check of the root directory alone
IsDirectory_RootOnly(path) == path.dir # NoDir /\ root[path.dir]

\* stat(path)?.isDirectory(): a cluster holds no entry named after the version
IsDirectory(path) ==
    IF path.dir = NoDir THEN FALSE
    ELSE CASE path.depth = 0 -> root[path.dir]
           [] path.depth = 1 -> root[path.dir] /\ sub[path.dir] # "absent"
           [] OTHER -> FALSE

\* a check that looks at the presence of the sub-path only
SubOwnedByCurrentUser_Present(d) == root[d] /\ sub[d] # "absent"

\* isOwnedByCurrentUser(<root>/<pgVersion>)
SubOwnedByCurrentUser(d) ==
    root[d] /\ sub[d] # "absent" /\ subOwner[d] = Me

\* isOwnedByCurrentUser(<root>/NEW)
MarkerOwnedByCurrentUser(d) == root[d] /\ marker[d] = Me

\* the directories a scan adopts: the sub-path of the version is a directory
\* and NEW is there, owned by the current user
Claimable ==
    {d \in Dirs : IsDirectory(JoinVersion(RootPath(d))) /\ MarkerOwnedByCurrentUser(d)}

\* a removal that leaves the file in place
RmMarker_Keep(d) == marker

\* fs.rm(<root>/NEW).catch(noop): the file is removed if it is there, and a
\* failure (the file is gone) is swallowed
RmMarker(d) == [marker EXCEPT ![d] = "none"]

\* the count(*) of testQuery: every client connection to a database, and the
\* connection of the psql that runs the query
ActiveConnections(d) == clients[d] + 1

(***************************************************************************)
(* initdb(dataDir?)                                                        *)
(***************************************************************************)
IdleCall == [pc |-> "off", dir |-> NoDir]

\* the call as it starts: without a directory it first makes one (mkdtemp)
InitdbCall(d) == [pc |-> IF d = NoDir THEN "mkdtemp" ELSE "mkdir", dir |-> d]

\* a tool that accepts any directory
ToolSucceeds_Always(d) == TRUE

\* the initialization tool succeeds on a sub-path that is missing (it makes
\* the directory) or empty and owned by the current user, and fails on one
\* that exists and is not empty
ToolSucceeds(d) ==
    \/ ~root[d] \/ sub[d] = "absent"
    \/ sub[d] = "empty" /\ subOwner[d] = Me

\* dataDir ||= await fs.mkdtemp(path.join(OS_TMP, PREFIX))
InitdbMkdtemp(i) ==
    /\ ic[i].pc = "mkdtemp"
    /\ nextDir <= MaxDirs
    /\ root' = [root EXCEPT ![nextDir] = TRUE]
    /\ nextDir' = nextDir + 1
    /\ ic' = [ic EXCEPT ![i] = [pc |-> "mkdir", dir |-> nextDir]]
    /\ UNCHANGED <<sub, subOwner, conf, marker, srvVars, launched, st, sp>>

\* await fs.mkdir(path.join(dataDir, pgVersion), { recursive: true })
InitdbMkdir(i) ==
    /\ ic[i].pc = "mkdir"
    /\ LET d == ic[i].dir IN
       /\ root' = [root EXCEPT ![d] = TRUE]
       /\ sub' = [sub EXCEPT ![d] = IF @ = "absent" THEN "empty" ELSE @]
       /\ subOwner' = [subOwner EXCEPT ![d] = IF sub[d] = "absent" THEN Me ELSE @]
    /\ ic' = [ic EXCEPT ![i].pc = "tool"]
    /\ UNCHANGED <<conf, marker, nextDir, srvVars, launched, st, sp>>

\* await spawn('initdb', ['--nosync', '-D', <sub-path>, ...]): a failure of the
\* tool is thrown to the caller and nothing after it runs
InitdbTool(i) ==
    /\ ic[i].pc = "tool"
    /\ LET d == ic[i].dir IN
       IF ToolSucceeds(d)
       THEN /\ root' = [root EXCEPT ![d] = TRUE]
            /\ sub' = [sub EXCEPT ![d] = "cluster"]
            /\ subOwner' = [subOwner EXCEPT ![d] = Me]
            /\ ic' = [ic EXCEPT ![i].pc = "conf"]
       ELSE /\ UNCHANGED <<root, sub, subOwner>>
            /\ ic' = [ic EXCEPT ![i].pc = "failed"]
    /\ UNCHANGED <<conf, marker, nextDir, srvVars, launched, st, sp>>

\* await fs.appendFile(confPath, <tuned settings>)
InitdbConf(i) ==
    /\ ic[i].pc = "conf"
    /\ LET d == ic[i].dir IN
       IF root[d] /\ sub[d] # "absent"
       THEN /\ conf' = [conf EXCEPT ![d] = IF @ < 2 THEN @ + 1 ELSE @]
            /\ ic' = [ic EXCEPT ![i].pc = "new"]
       ELSE /\ conf' = conf
            /\ ic' = [ic EXCEPT ![i].pc = "failed"]
    /\ UNCHANGED <<root, sub, subOwner, marker, nextDir, srvVars, launched, st, sp>>

\* await fs.writeFile(path.join(dataDir, 'NEW'), ''); return dataDir
InitdbNew(i) ==
    /\ ic[i].pc = "new"
    /\ LET d == ic[i].dir IN
       IF root[d] /\ marker[d] # Other
       THEN /\ marker' = [marker EXCEPT ![d] = Me]
            /\ ic' = [ic EXCEPT ![i].pc = "returned"]
       ELSE /\ marker' = marker
            /\ ic' = [ic EXCEPT ![i].pc = "failed"]
    /\ UNCHANGED <<root, sub, subOwner, conf, nextDir, srvVars, launched, st, sp>>

Initdb(i) ==
    \/ InitdbMkdtemp(i)
    \/ InitdbMkdir(i)
    \/ InitdbTool(i)
    \/ InitdbConf(i)
    \/ InitdbNew(i)

Min(a, b) == IF a < b THEN a ELSE b
Max(a, b) == IF a > b THEN a ELSE b

(***************************************************************************)
(* stop(dataDir, options): the call as it starts.  `keep`, `force` are     *)
(* booleans (undefined is FALSE); `host` and `port` are passed on as given;*)
(* `err` is the error the call threw.                                      *)
(***************************************************************************)
IdleStop ==
    [pc |-> "off", path |-> RootPath(NoDir), keep |-> FALSE, timeout |-> 0,
     initialTimeout |-> 0, force |-> FALSE, host |-> "undefined",
     port |-> "undefined", first |-> TRUE, slept |-> 0,
     stopIssued |-> FALSE, removed |-> FALSE, err |-> "none"]

StopCall(path, keep, timeout, initialTimeout, force, host, port) ==
    [IdleStop EXCEPT !.pc = "stat", !.path = path, !.keep = keep,
                     !.timeout = timeout, !.initialTimeout = initialTimeout,
                     !.force = force, !.host = host, !.port = port]

(***************************************************************************)
(* start(options)                                                          *)
(***************************************************************************)
\* `path` is the variable dataDir, `dataDir` the root directory it names;
\* `idleAtCall` records the claimable directories at the call (history);
\* options.dataDir (NoDir: unspecified), options.timeout (<<>>: unspecified,
\* <<t>>: t seconds), options.keep, options.host ("none", "true", "custom"),
\* options.port ("undefined", "supplied"); `i` counts the failed createdb
\* attempts, `naps` the sleep(100) between them, `db` tells how the loop ended
\* ("created", "exists"), `lastError` is the error of the latest failed attempt
NoError == [msg |-> "none", attempt |-> 0]

IdleStart ==
    [pc |-> "off", optDir |-> NoDir, timeout |-> 0, keep |-> FALSE,
     optHost |-> "none", optPort |-> "undefined",
     dataDir |-> NoDir, path |-> RootPath(NoDir), how |-> "none", todo |-> {}, cand |-> NoDir,
     i |-> 0, host |-> "undefined", port |-> "undefined",
     prewarms |-> 0, watchers |-> 0, ret |-> "none", idleAtCall |-> {},
     naps |-> 0, db |-> "none", lastError |-> NoError]

\* let { postgresOptions = '', timeout = 60 } = options
\* (const pgVersion = await getPostgresVersion() changes nothing: the call
\* starts at the scan, or at the ownership check of the given directory)
StartTimeout(t) == IF t = <<>> THEN DefaultStartTimeout ELSE t[1]

StartCallOf(optDir, timeout, keep, optHost, optPort) ==
    [IdleStart EXCEPT !.pc = IF optDir = NoDir THEN "glob" ELSE "explicit",
                      !.optDir = optDir,
                      !.timeout = StartTimeout(timeout), !.keep = keep,
                      !.optHost = optHost, !.optPort = optPort]

\* a host that is never set
HostOf_None(optHost) == "undefined"

\* if (options.host) { if (options.host === true) host = '127.0.0.1';
\*   port ??= await getUnusedPort(); ... }
\* `port` is a fresh variable of start(): options.port is not read
HostOf(optHost) == IF optHost = "true" THEN "127.0.0.1" ELSE "undefined"
PortOf(optHost, port) ==
    IF optHost # "none" /\ port = "undefined" THEN "allocated" ELSE port

\* the call with its directory acquired, up to the spawn of the watcher
Acquired(call, d, how) ==
    [call EXCEPT !.pc = "launch", !.dataDir = d, !.path = RootPath(d),
                 !.how = how, !.host = HostOf(call.optHost),
                 !.port = PortOf(call.optHost, call.port)]

\* await glob(PREFIX + '*', { cwd: OS_TMP }): the directories present now
StartGlob(p) ==
    /\ st[p].pc = "glob"
    /\ st' = [st EXCEPT ![p].pc = "scan", ![p].todo = {d \in Dirs : root[d]}]
    /\ UNCHANGED <<fsVars, nextDir, srvVars, launched, ic, sp>>

\* one turn of the for loop, in an order the listing decides:
\* if ((await stat(path.join(dir, pgVersion)))?.isDirectory())
StartScanStat(p) ==
    /\ st[p].pc = "scan"
    /\ st[p].todo # {}
    /\ \E d \in st[p].todo :
          st' = [st EXCEPT ![p].todo = @ \ {d},
                           ![p].cand = d,
                           ![p].pc = IF IsDirectory(JoinVersion(RootPath(d)))
                                     THEN "owner" ELSE "scan"]
    /\ UNCHANGED <<fsVars, nextDir, srvVars, launched, ic, sp>>

\* if (await isOwnedByCurrentUser(unusedMarker))
StartScanOwner(p) ==
    /\ st[p].pc = "owner"
    /\ st' = [st EXCEPT ![p].pc = IF MarkerOwnedByCurrentUser(st[p].cand)
                                  THEN "rm" ELSE "scan"]
    /\ UNCHANGED <<fsVars, nextDir, srvVars, launched, ic, sp>>

\* a start() that goes on only when the processes it spawned have ended
BackgroundSpawnReturns_Awaited(p) ==
    /\ ic[PrewarmId(p)].pc \in {"off", "returned", "failed"}
    /\ sp[WatcherId(p)].pc \in {"off", "done", "failed"}

\* spawn(cmd, argv, { stdio: 'ignore', detached: true }).unref(): the call
\* returns at once and nothing of the child is awaited, whatever it does
BackgroundSpawnReturns(p) == TRUE

\* a start() that spawns no pre-warm process
SpawnPrewarm_None(p) == ic

\* backgroundSpawn('node', [initdb.js]): the pre-warm process, which makes its
\* own directory (mkdtempSync) and runs initdb(dataDir) on it
SpawnPrewarm(p) == [ic EXCEPT ![PrewarmId(p)] = InitdbCall(NoDir)]

\* await fs.rm(unusedMarker).catch(noop); dataDir = dir; break; and, after the
\* loop, the pre-warm process is spawned
StartScanRm(p) ==
    /\ st[p].pc = "rm"
    /\ marker' = RmMarker(st[p].cand)
    /\ st' = [st EXCEPT ![p] = [Acquired(@, st[p].cand, "scan")
                                    EXCEPT !.prewarms = @ + 1]]
    /\ ic' = SpawnPrewarm(p)
    /\ UNCHANGED <<root, sub, subOwner, conf, nextDir, srvVars, launched, sp>>

\* the loop ended without a directory: dataDir = await initdb()
StartScanMiss(p) ==
    /\ st[p].pc = "scan"
    /\ st[p].todo = {}
    /\ st' = [st EXCEPT ![p].pc = "initdb"]
    /\ ic' = [ic EXCEPT ![InlineId(p)] = InitdbCall(NoDir)]
    /\ UNCHANGED <<fsVars, nextDir, srvVars, launched, sp>>

\* initdb() returned: await fs.rm(path.join(dataDir, 'NEW')).catch(noop), then
\* the pre-warm process is spawned; initdb() threw: start() throws
StartCreated(p) ==
    /\ st[p].pc = "initdb"
    /\ \/ /\ ic[InlineId(p)].pc = "returned"
          /\ marker' = RmMarker(ic[InlineId(p)].dir)
          /\ st' = [st EXCEPT ![p] = [Acquired(@, ic[InlineId(p)].dir, "created")
                                          EXCEPT !.prewarms = @ + 1]]
          /\ ic' = [SpawnPrewarm(p) EXCEPT ![InlineId(p)].pc = "joined"]
       \/ /\ ic[InlineId(p)].pc = "failed"
          /\ marker' = marker
          /\ st' = [st EXCEPT ![p].pc = "failed"]
          /\ ic' = [ic EXCEPT ![InlineId(p)].pc = "thrown"]
    /\ UNCHANGED <<root, sub, subOwner, conf, nextDir, srvVars, launched, sp>>

\* else if (!(await isOwnedByCurrentUser(path.join(dataDir, pgVersion))))
\*   await initdb(dataDir)
StartExplicit(p) ==
    /\ st[p].pc = "explicit"
    /\ IF SubOwnedByCurrentUser(st[p].optDir)
       THEN /\ st' = [st EXCEPT ![p] = Acquired(@, st[p].optDir, "adopted")]
            /\ ic' = ic
       ELSE /\ st' = [st EXCEPT ![p].pc = "initdb_in_place",
                                ![p].dataDir = st[p].optDir,
                                ![p].path = RootPath(st[p].optDir)]
            /\ ic' = [ic EXCEPT ![InlineId(p)] = InitdbCall(st[p].optDir)]
    /\ UNCHANGED <<fsVars, nextDir, srvVars, launched, sp>>

\* initdb(dataDir) returned or threw
StartExplicitInitialized(p) ==
    /\ st[p].pc = "initdb_in_place"
    /\ \/ /\ ic[InlineId(p)].pc = "returned"
          /\ st' = [st EXCEPT ![p] = Acquired(@, st[p].optDir, "initialized")]
          /\ ic' = [ic EXCEPT ![InlineId(p)].pc = "joined"]
       \/ /\ ic[InlineId(p)].pc = "failed"
          /\ st' = [st EXCEPT ![p].pc = "failed"]
          /\ ic' = [ic EXCEPT ![InlineId(p)].pc = "thrown"]
    /\ UNCHANGED <<fsVars, nextDir, srvVars, launched, sp>>

\* backgroundSpawn('node', [stop.js, dataDir, --host, --port, --timeout, --keep])
\* and src/stop.ts: stop(dataDir, { host, port, keep, timeout, ... })
SpawnWatcher(p) ==
    [sp EXCEPT ![WatcherId(p)] =
        StopCall(st[p].path, st[p].keep, st[p].timeout, DefaultInitialTimeout,
                 FALSE, st[p].host, st[p].port)]

\* a watcher for every timeout
WatcherWanted_Always(timeout) == TRUE

\* if (timeout > 0): a valid timeout spawns the watcher
WatcherWanted(timeout) == timeout > 0

\* pg_ctl start needs a cluster in the directory it is given
PgCtlStartSucceeds(d) == root[d] /\ sub[d] = "cluster"

\* if (timeout > 0) backgroundSpawn(stop helper); dataDir = path.join(dataDir,
\* pgVersion); await spawn('pg_ctl', [-W, -s, -D, dataDir, ..., 'start'])
\* The watcher is a process of its own from the moment it is spawned: it runs
\* beside the rest of these lines, so the spawn and the start command are two
\* steps.
StartLaunch(p) ==
    /\ st[p].pc = "launch"
    /\ BackgroundSpawnReturns(p)
    /\ LET d == st[p].dataDir IN
       \/ /\ WatcherWanted(st[p].timeout) /\ st[p].watchers = 0
          /\ sp' = SpawnWatcher(p)
          /\ st' = [st EXCEPT ![p].watchers = @ + 1]
          /\ UNCHANGED <<server, launched>>
       \/ /\ WatcherWanted(st[p].timeout) => st[p].watchers > 0
          /\ sp' = sp
          /\ IF PgCtlStartSucceeds(d)
             THEN /\ server' = [server EXCEPT ![d] = IF @ = "down" THEN "starting" ELSE @]
                  /\ launched' = [launched EXCEPT ![d] = @ \cup {p}]
                  /\ st' = [st EXCEPT ![p].pc = "createdb",
                                      ![p].path = JoinVersion(@)]
             ELSE /\ UNCHANGED <<server, launched>>
                  /\ st' = [st EXCEPT ![p].pc = "failed",
                                      ![p].path = JoinVersion(@)]
    /\ UNCHANGED <<fsVars, nextDir, testdb, clients, served, ic>>

\* createdb reaches the server once it accepts connections
CreatedbConnects(d) == server[d] = "up"

\* the error of spawn('createdb', ['-E', 'UNICODE', 'test']), "none" when it
\* made the database
CreatedbError(d) ==
    IF ~CreatedbConnects(d) THEN "could not connect"
    ELSE IF testdb[d] THEN "already exists"
    ELSE "none"

\* an error that is never taken for 'already exists'
IsAlreadyExists_Never(error) == FALSE

\* if (error.message.includes('already exists')) break
IsAlreadyExists(error) == error = "already exists"

\* a loop that gives up at its first failure
Retries_Never(i) == FALSE

\* if (++i < 5) await sleep(100); else throw error
Retries(i) == i < CreatedbAttempts

\* one turn of the createdb loop: success or 'already exists' ends it, another
\* failure is retried after sleep(100) until the fifth, which is thrown; then
\* return { dsn, dataDir, stop }
StartCreatedb(p) ==
    /\ st[p].pc = "createdb"
    /\ BackgroundSpawnReturns(p)
    /\ LET d == st[p].dataDir
           error == CreatedbError(d)
       IN IF error = "none" \/ IsAlreadyExists(error)
          THEN /\ testdb' = [testdb EXCEPT ![d] = TRUE]
               /\ st' = [st EXCEPT
                     ![p].pc = "done", ![p].ret = "returned",
                     ![p].db = IF error = "none" THEN "created" ELSE "exists"]
          ELSE /\ testdb' = testdb
               /\ st' = [st EXCEPT
                     ![p].i = @ + 1,
                     ![p].lastError = [msg |-> error, attempt |-> st[p].i + 1],
                     ![p].naps = IF Retries(st[p].i + 1) THEN @ + 1 ELSE @,
                     ![p].pc = IF Retries(st[p].i + 1) THEN "createdb" ELSE "failed",
                     ![p].ret = IF Retries(st[p].i + 1) THEN @ ELSE "thrown"]
    /\ UNCHANGED <<fsVars, nextDir, server, clients, served, launched, ic, sp>>

\* encodeURIComponent(dataDir): the path with its separators escaped
EncodeURIComponent(path) == [encoded |-> path]

\* the dsn of the returned object:
\* port ? `postgresql://${host}:${port}/test`
\*      : `postgresql:///test?host=${encodeURIComponent(dataDir)}`
Dsn(p) ==
    IF st[p].port # "undefined"
    THEN [kind |-> "tcp", host |-> st[p].host, port |-> st[p].port]
    ELSE [kind |-> "socket", host |-> EncodeURIComponent(st[p].path)]

\* start() without dataDir: the scan of the pool and the fallback
StartAcquire(p) ==
    \/ StartGlob(p)
    \/ StartScanStat(p)
    \/ StartScanOwner(p)
    \/ StartScanRm(p)
    \/ StartScanMiss(p)
    \/ StartCreated(p)

\* start() with dataDir
StartAdopt(p) ==
    \/ StartExplicit(p)
    \/ StartExplicitInitialized(p)

\* the rest of start()
StartRun(p) ==
    \/ StartLaunch(p)
    \/ StartCreatedb(p)

Start(p) == StartAcquire(p) \/ StartAdopt(p) \/ StartRun(p)

(***************************************************************************)
(* stop(dataDir, options)                                                  *)
(***************************************************************************)
\* a stop() that always waits for the connections to finish
DrainWanted_Always(force, timeout) == TRUE

\* if (!force && timeout > 0): the connections are waited for
DrainWanted(force, timeout) == ~force /\ timeout > 0

\* a stop() that always removes the directory
RemovalWanted_Always(keep) == TRUE

\* if (!keep): the directory is removed
RemovalWanted(keep) == ~keep

\* dataDir = path.join(dataDir, pgVersion); if (!(await stat(dataDir))
\* ?.isDirectory()) throw new Error('Please specify a valid ... directory')
StopStat(s) ==
    /\ sp[s].pc = "stat"
    /\ LET dataDir == JoinVersion(sp[s].path) IN
       sp' = [sp EXCEPT
          ![s].path = dataDir,
          ![s].err = IF ~IsDirectory(dataDir) THEN "invalid data directory" ELSE @,
          ![s].pc = IF ~IsDirectory(dataDir) THEN "failed"
                    ELSE IF DrainWanted(sp[s].force, sp[s].timeout) THEN "drain"
                    ELSE "stopping"]
    /\ UNCHANGED <<fsVars, nextDir, srvVars, launched, st, ic>>

\* a loop that goes round again only above the threshold
Drains_Above(count) == count > DrainThreshold

\* for (let count = 2, attempts = 0; count >= 2; ): the loop goes round again
Drains(count) == count >= DrainThreshold

\* a query that always gets its answer
PsqlConnects_Always(d) == TRUE

\* psql test -c testQuery reaches the server once it accepts connections and
\* the database `test` exists
PsqlConnects(d) == server[d] = "up" /\ testdb[d]

\* one turn of the drain loop:
\* await sleep((attempts++ ? timeout : initialTimeout) * 1000), then the
\* query; an error is thrown, a count >= 2 goes round again
StopSample(s) ==
    /\ sp[s].pc = "drain"
    /\ LET d == sp[s].path.dir
           nap == IF sp[s].first THEN sp[s].initialTimeout ELSE sp[s].timeout
       IN sp' = [sp EXCEPT
             ![s].first = FALSE,
             ![s].slept = Min(@ + Max(nap, 0), MaxSlept),
             ![s].err = IF PsqlConnects(d) THEN @
                        ELSE IF server[d] # "up" THEN "psql: server not accepting"
                        ELSE "psql: no database test",
             ![s].pc = IF ~PsqlConnects(d) THEN "failed"
                       ELSE IF Drains(ActiveConnections(d)) THEN "drain"
                       ELSE "stopping"]
    /\ UNCHANGED <<fsVars, nextDir, srvVars, launched, st, ic>>

\* await spawn('pg_ctl', ['-W', '-D', dataDir, 'stop']): -W does not wait for
\* the shutdown.  The command needs the server's pid file: it fails on a
\* server that is down, and on one that was only just started it may or may
\* not find the file.
StopPgCtl(s) ==
    /\ sp[s].pc = "stopping"
    /\ LET d == sp[s].path.dir IN
       \/ /\ root[d] /\ server[d] \in {"starting", "up", "stopping"}
          /\ server' = [server EXCEPT ![d] = "stopping"]
          /\ clients' = [clients EXCEPT ![d] = 0]
          /\ sp' = [sp EXCEPT ![s].stopIssued = TRUE,
                              ![s].pc = IF RemovalWanted(sp[s].keep)
                                        THEN "removing" ELSE "done"]
       \/ /\ ~root[d] \/ server[d] \in {"down", "starting"}
          /\ UNCHANGED <<server, clients>>
          /\ sp' = [sp EXCEPT ![s].stopIssued = TRUE,
                              ![s].err = "pg_ctl stop",
                              ![s].pc = "failed"]
    /\ UNCHANGED <<fsVars, nextDir, testdb, served, launched, st, ic>>

\* rmSync(path.dirname(dataDir), { maxRetries: 3, recursive: true, force: true })
StopRemove(s) ==
    /\ sp[s].pc = "removing"
    /\ LET target == Dirname(sp[s].path)
           d == target.dir
       IN /\ root' = [root EXCEPT ![d] = IF target.depth = 0 THEN FALSE ELSE @]
          /\ marker' = [marker EXCEPT ![d] = IF target.depth = 0 THEN "none" ELSE @]
          /\ sub' = [sub EXCEPT ![d] = "absent"]
          /\ conf' = [conf EXCEPT ![d] = 0]
          /\ testdb' = [testdb EXCEPT ![d] = FALSE]
    /\ sp' = [sp EXCEPT ![s].removed = TRUE, ![s].pc = "done"]
    /\ UNCHANGED <<subOwner, nextDir, server, clients, served, launched, st, ic>>

Stop(s) ==
    \/ StopStat(s)
    \/ StopSample(s)
    \/ StopPgCtl(s)
    \/ StopRemove(s)

(***************************************************************************)
(* The PostgreSQL server and its clients.                                  *)
(***************************************************************************)
\* the server started by pg_ctl start begins to accept connections
ServerReady(d) ==
    /\ server[d] = "starting"
    /\ server' = [server EXCEPT ![d] = "up"]
    /\ UNCHANGED <<fsVars, nextDir, testdb, clients, served, launched, st, ic, sp>>

\* the server told to shut down by pg_ctl stop has exited
ServerExit(d) ==
    /\ server[d] = "stopping"
    /\ server' = [server EXCEPT ![d] = "down"]
    /\ UNCHANGED <<fsVars, nextDir, testdb, clients, served, launched, st, ic, sp>>

\* a client opens a connection with the dsn
ClientConnect(d) ==
    /\ server[d] = "up" /\ testdb[d]
    /\ clients[d] < MaxClients
    /\ clients' = [clients EXCEPT ![d] = @ + 1]
    /\ served' = [served EXCEPT ![d] = TRUE]
    /\ UNCHANGED <<fsVars, nextDir, server, testdb, launched, st, ic, sp>>

ClientDisconnect(d) ==
    /\ clients[d] > 0
    /\ clients' = [clients EXCEPT ![d] = @ - 1]
    /\ UNCHANGED <<fsVars, nextDir, server, testdb, served, launched, st, ic, sp>>

(***************************************************************************)
(* The callers of the API.                                                 *)
(***************************************************************************)
\* timeout = 5, initialTimeout = 0 when unspecified
StopTimeout(t) == IF t = <<>> THEN DefaultStopTimeout ELSE t[1]

\* start(options): the calls are made in the order of their numbers
CallStart(p, optDirs, timeouts, keeps) ==
    /\ st[p].pc = "off"
    /\ \A q \in Procs : q < p => st[q].pc # "off"
    /\ \E d \in optDirs, t \in timeouts, k \in keeps :
          st' = [st EXCEPT ![p] = [StartCallOf(d, t, k, "none", "undefined")
                                    EXCEPT !.idleAtCall = Claimable]]
    /\ UNCHANGED <<fsVars, nextDir, srvVars, launched, ic, sp>>

\* start({ dataDir, timeout, host, port })
CallStartNet(p, optDirs, timeouts, hosts, ports) ==
    /\ st[p].pc = "off"
    /\ \E d \in optDirs, t \in timeouts, h \in hosts, pt \in ports :
          st' = [st EXCEPT ![p] = StartCallOf(d, t, FALSE, h, pt)]
    /\ UNCHANGED <<fsVars, nextDir, srvVars, launched, ic, sp>>

\* stop: (options) => stop(dataDir, { host, port, ...options }) of the object
\* start() p returned
CallReturnedStop(p, keeps, timeouts, forces) ==
    /\ st[p].pc = "done"
    /\ sp[ReturnedId(p)].pc = "off"
    /\ \E k \in keeps, t \in timeouts, f \in forces :
          sp' = [sp EXCEPT ![ReturnedId(p)] =
                    StopCall(st[p].path, k, StopTimeout(t), DefaultInitialTimeout,
                             f, st[p].host, st[p].port)]
    /\ UNCHANGED <<fsVars, nextDir, srvVars, launched, st, ic>>

\* a direct stop(<root>, options)
CallStop(dirs, keeps, timeouts, initialTimeouts, forces) ==
    /\ sp[ApiId].pc = "off"
    /\ \E d \in dirs, k \in keeps, t \in timeouts, it \in initialTimeouts,
          f \in forces :
          sp' = [sp EXCEPT ![ApiId] =
                    StopCall(RootPath(d), k, StopTimeout(t), it, f,
                             "undefined", "undefined")]
    /\ UNCHANGED <<fsVars, nextDir, srvVars, launched, st, ic>>

\* a direct initdb(dataDir?)
CallInitdb(dirs) ==
    /\ ic[ApiId].pc = "off"
    /\ \E d \in dirs : ic' = [ic EXCEPT ![ApiId] = InitdbCall(d)]
    /\ UNCHANGED <<fsVars, nextDir, srvVars, launched, st, sp>>

(***************************************************************************)
(* The temp root before the first call: directories left by earlier runs.  *)
(*   idle      initialized by the current user, never used (NEW present)   *)
(*   used      initialized by the current user and adopted before          *)
(*   foreign   an idle directory of another OS user                        *)
(*   otherver  an idle directory of the current user whose cluster is of   *)
(*             another PostgreSQL version                                  *)
(*   none      no directory                                                *)
(*   running   as used, with the server of an earlier start() still up     *)
(***************************************************************************)
Kinds == {"idle", "used", "foreign", "otherver", "none"}
Cluster == {"idle", "used", "foreign", "running"}
InitialDirs == 1..InitDirs

\* the names mkdtemp gave the directories mean nothing to the program (the
\* order of the scan is any order), so the temp roots are listed up to a
\* renaming of the directories: their kinds come in the order of KindOrder
KindOrder == <<"idle", "used", "foreign", "otherver", "none", "running">>
KindRank(k) == CHOOSE n \in 1..Len(KindOrder) : KindOrder[n] = k

InitWith(kinds) ==
    /\ \E kind \in [InitialDirs -> kinds] :
          LET K(d) == IF d \in InitialDirs THEN kind[d] ELSE "none" IN
          /\ \A d, e \in InitialDirs : d < e => KindRank(kind[d]) <= KindRank(kind[e])
          /\ root = [d \in Dirs |-> K(d) # "none"]
          /\ sub = [d \in Dirs |-> IF K(d) \in Cluster THEN "cluster" ELSE "absent"]
          /\ subOwner = [d \in Dirs |-> IF K(d) = "foreign" THEN Other ELSE Me]
          /\ conf = [d \in Dirs |-> IF K(d) \in Cluster THEN 1 ELSE 0]
          /\ marker = [d \in Dirs |-> CASE K(d) \in {"idle", "otherver"} -> Me
                                         [] K(d) = "foreign" -> Other
                                         [] OTHER -> "none"]
          /\ server = [d \in Dirs |-> IF K(d) = "running" THEN "up" ELSE "down"]
          /\ testdb = [d \in Dirs |-> K(d) = "running"]
    /\ nextDir = InitDirs + 1
    /\ clients = [d \in Dirs |-> 0]
    /\ served = [d \in Dirs |-> FALSE]
    /\ launched = [d \in Dirs |-> {}]
    /\ st = [p \in Procs |-> IdleStart]
    /\ ic = [i \in CallIds |-> IdleCall]
    /\ sp = [s \in CallIds |-> IdleStop]

(***************************************************************************)
(* Spec: one start() call with any data directory, timeout and keep, the   *)
(* pre-warm process and the watcher it spawns, the server and a client.    *)
(***************************************************************************)
StartTimeouts == {<<-1>>, <<0>>, <<1>>, <<>>}
StopTimeouts == {<<0>>, <<1>>, <<>>}

Init == InitWith(Kinds)

Next ==
    \/ CallStart(1, {NoDir} \cup InitialDirs, StartTimeouts, BOOLEAN)
    \/ Start(1)
    \/ Initdb(InlineId(1))
    \/ Initdb(PrewarmId(1))
    \/ Stop(WatcherId(1))
    \/ \E d \in Dirs : ServerReady(d)
    \/ \E d \in Dirs : ServerExit(d)
    \/ \E d \in Dirs : ClientConnect(d)
    \/ \E d \in Dirs : ClientDisconnect(d)

Spec == Init /\ [][Next]_vars

(***************************************************************************)
(* SpecExplicit: one start() call that spawns no watcher (timeout <= 0),   *)
(* stopped by its caller: with the stop() it returned, or with a direct    *)
(* stop() of its root directory.                                           *)
(***************************************************************************)
NextExplicit ==
    \/ CallStart(1, {NoDir} \cup InitialDirs, {<<-1>>, <<0>>}, {FALSE})
    \/ Start(1)
    \/ Initdb(InlineId(1))
    \/ Stop(WatcherId(1))
    \/ CallReturnedStop(1, BOOLEAN, {<<>>}, {FALSE})
    \/ Stop(ReturnedId(1))
    \/ st[1].pc = "done" /\ CallStop({st[1].dataDir}, BOOLEAN, {<<0>>, <<>>}, {0}, {FALSE})
    \/ Stop(ApiId)
    \/ \E d \in Dirs : ServerReady(d)
    \/ \E d \in Dirs : ServerExit(d)
    \/ \E d \in Dirs : ClientConnect(d)
    \/ \E d \in Dirs : ClientDisconnect(d)

SpecExplicit == Init /\ [][NextExplicit]_vars

(***************************************************************************)
(* SpecPool: concurrent start() calls without dataDir over the pool, with  *)
(* the pre-warm processes they spawn.                                      *)
(***************************************************************************)
NextPool ==
    \/ \E p \in Procs : CallStart(p, {NoDir}, {<<0>>}, {FALSE})
    \/ \E p \in Procs : StartAcquire(p) \/ StartLaunch(p)
    \/ \E p \in Procs : Initdb(InlineId(p))
    \/ \E p \in Procs : Initdb(PrewarmId(p))

SpecPool == Init /\ [][NextPool]_vars

(***************************************************************************)
(* SpecNet: one start() call on a given data directory with any host and   *)
(* port options, its watcher and the stop() it returned.                   *)
(***************************************************************************)
Hosts == {"none", "true", "custom"}
Ports == {"undefined", "supplied"}

NextNet ==
    \/ CallStartNet(1, InitialDirs, {<<0>>, <<1>>}, Hosts, Ports)
    \/ StartAdopt(1)
    \/ StartRun(1)
    \/ InitdbMkdir(InlineId(1))
    \/ InitdbTool(InlineId(1))
    \/ InitdbConf(InlineId(1))
    \/ InitdbNew(InlineId(1))
    \/ Stop(WatcherId(1))
    \/ CallReturnedStop(1, {FALSE}, {<<0>>}, {FALSE})
    \/ Stop(ReturnedId(1))
    \/ \E d \in Dirs : ServerReady(d)
    \/ \E d \in Dirs : ServerExit(d)

SpecNet == Init /\ [][NextNet]_vars

(***************************************************************************)
(* SpecApi: direct initdb() and stop() calls on the directories of the     *)
(* temp root, some with a server running.                                  *)
(***************************************************************************)
InitApi == InitWith(Kinds \cup {"running"})

NextApi ==
    \/ CallInitdb({NoDir} \cup InitialDirs)
    \/ Initdb(ApiId)
    \/ CallStop(InitialDirs, BOOLEAN, StopTimeouts, {0, 1}, BOOLEAN)
    \/ Stop(ApiId)
    \/ \E d \in Dirs : ServerExit(d)
    \/ \E d \in Dirs : ClientConnect(d)
    \/ \E d \in Dirs : ClientDisconnect(d)

SpecApi == InitApi /\ [][NextApi]_vars

(***************************************************************************)
(* Claims about the pool (SpecPool).                                       *)
(***************************************************************************)
\* the call has its directory: it is past the scan and the fallback
HasAcquired(p) == st[p].pc \in {"launch", "createdb", "done"}

\* the call passed the ownership check of the NEW marker of d
PassedOwnerCheck(p, d) ==
    /\ st[p].cand = d
    /\ st[p].pc = "rm" \/ (HasAcquired(p) /\ st[p].how = "scan")

\* C1: when two start() calls without dataDir race over the one claimable
\* idle directory (both passed the ownership check of its NEW marker and no
\* other idle directory is there), exactly one of them adopts it, the other
\* falls back to creating a new directory, and neither fails.
C1_OneAdopterPerRace ==
    \A p, q \in Procs, d \in Dirs :
        ( /\ p # q
          /\ PassedOwnerCheck(p, d) /\ PassedOwnerCheck(q, d)
          /\ \A e \in Dirs \ {d} : marker[e] # Me
          /\ st[p].pc # "rm" /\ st[q].pc # "rm" )
        => /\ st[p].pc # "failed" /\ st[q].pc # "failed"
           /\ \/ st[p].dataDir = d /\ st[q].dataDir # d /\ st[q].how = "created"
              \/ st[q].dataDir = d /\ st[p].dataDir # d /\ st[p].how = "created"

\* C2: no root directory is ever acquired by more than one start() call, and
\* no two start() calls launch a server on the same versioned sub-path.
C2_NoSharedDirectory ==
    /\ \A p, q \in Procs :
          (p # q /\ HasAcquired(p) /\ HasAcquired(q)) => st[p].dataDir # st[q].dataDir
    /\ \A d \in Dirs : Cardinality(launched[d]) <= 1

(***************************************************************************)
(* Claims about the watcher (Spec).                                        *)
(***************************************************************************)
Watcher(p) == sp[WatcherId(p)]

\* C3: after a start() with timeout > 0 has returned, if no client ever
\* connects, the watcher stops the server and the root directory is removed:
\* a watcher that has ended, be it on a query the server was not yet up to
\* answer, has left no root directory behind.
C3_WatcherEndsWithRemoval ==
    \A p \in Procs :
        ( /\ st[p].pc = "done" /\ st[p].timeout > 0 /\ ~st[p].keep
          /\ ~served[st[p].dataDir]
          /\ \/ Watcher(p).pc = "done"
             \/ Watcher(p).pc = "failed"
                /\ Watcher(p).err = "psql: server not accepting" )
        => ~root[st[p].dataDir]

\* one step of the watcher of start() call p, as C4 describes it
C4_Step(p) ==
    LET w == WatcherId(p)
        d == sp[w].path.dir
    IN  sp[w].pc # "off" =>
        \* it goes on to stop the server only from a sample that found no client
        /\ (sp[w].pc # "stopping" /\ sp'[w].pc = "stopping")
              => (sp[w].pc = "drain" /\ PsqlConnects(d) /\ clients[d] = 0)
        \* a sample taken while a client is connected goes round again
        /\ (sp[w].pc = "drain" /\ clients[d] >= 1) => sp'[w].pc \in {"drain", "failed"}
        \* the first sample that finds no client goes on to stop the server
        /\ (sp[w].pc = "drain" /\ sp'[w] # sp[w] /\ PsqlConnects(d) /\ clients[d] = 0)
              => sp'[w].pc = "stopping"
        \* the stop command and the removal come only after that
        /\ (~sp[w].stopIssued /\ sp'[w].stopIssued) => sp[w].pc = "stopping"
        /\ (root[d] /\ ~root'[d]) => (sp[w].pc = "removing" /\ sp[w].stopIssued)
        \* and, once begun, they are carried out
        /\ (sp[w].pc = "stopping" /\ sp'[w] # sp[w]) => sp'[w].stopIssued
        /\ (sp[w].pc = "removing" /\ sp'[w] # sp[w]) => (sp'[w].removed /\ ~root'[d])

\* C4: while a client holds a connection at every sample the watcher takes,
\* the watcher neither issues the server-stop command nor removes the
\* directory; the first sample after the client disconnected is below 2, and
\* the watcher then stops the server and (unless keep) removes the root.
C4_DrainsWhileConnected ==
    /\ [][\A p \in Procs : C4_Step(p)]_vars
    /\ [](\A p \in Procs :
            Watcher(p).pc = "done" =>
                /\ Watcher(p).stopIssued
                /\ Watcher(p).keep \/ ~root[Watcher(p).path.dir])

\* a watcher that sampled a connected client, went round, and after the
\* client left stopped the server and removed the directory
C4_Witness ==
    \E p \in Procs :
        /\ Watcher(p).pc = "done" /\ Watcher(p).removed
        /\ served[Watcher(p).path.dir]
        /\ Watcher(p).slept > 0

\* C5: the watcher of start({timeout: T}), T > 0, has slept for at least T
\* seconds when it issues the server-stop command.
C5_NoStopBeforeTimeout ==
    \A p \in Procs :
        (st[p].timeout > 0 /\ Watcher(p).stopIssued)
        => Watcher(p).slept >= Min(st[p].timeout, MaxSlept)

(***************************************************************************)
(* Claims about a start() without watcher and its stop (SpecExplicit).     *)
(***************************************************************************)
Returned(p) == sp[ReturnedId(p)]

\* C6: the stop() of the object a start() with timeout 0 returned, called
\* while nothing else stops the instance, passes the validity check of the
\* data directory, does not fail, and once it has resolved it has stopped the
\* server start() launched and, unless keep is set, the root directory is gone.
C6_ReturnedStopTargetsInstance ==
    \A p \in Procs :
        ( /\ st[p].pc = "done" /\ st[p].timeout <= 0
          /\ Returned(p).pc # "off" /\ sp[ApiId].pc = "off" )
        => /\ Returned(p).err # "invalid data directory"
           /\ Returned(p).pc # "failed"
           /\ Returned(p).pc = "done"
                => /\ Returned(p).stopIssued
                   /\ server[st[p].dataDir] \in {"stopping", "down"}
                   /\ Returned(p).keep \/ ~root[st[p].dataDir]

\* a step of a stop() call a caller made: of the returned stop() of start()
\* call p, or of a direct stop()
ExplicitStopStep(p) ==
    \E s \in {ReturnedId(p), ApiId} :
        sp[s].pc \in {"stopping", "removing"} /\ sp'[s] # sp[s]

\* C7: start() with timeout <= 0 spawns no watcher, and the server it
\* launched stays up and its root directory stays in place in every step
\* that is not a step of a stop() call some caller made.
C7_NoWatcherWithoutTimeout ==
    /\ [](\A p \in Procs :
            (st[p].pc # "off" /\ st[p].timeout <= 0)
            => (Watcher(p).pc = "off" /\ st[p].watchers = 0))
    /\ [][\A p \in Procs :
            (st[p].pc \in {"createdb", "done"} /\ st[p].timeout <= 0)
            => LET d == st[p].dataDir IN
               /\ (server[d] \in {"starting", "up"} /\ server'[d] \notin {"starting", "up"})
                     => ExplicitStopStep(p)
               /\ (root[d] /\ ~root'[d]) => ExplicitStopStep(p)]_vars

\* a start() with timeout <= 0 returned with no watcher, and the server ran
\* until a direct stop() stopped it and removed the directory
C7_Witness ==
    \E p \in Procs :
        /\ st[p].pc = "done" /\ st[p].timeout <= 0
        /\ Watcher(p).pc = "off"
        /\ sp[ApiId].pc = "done" /\ sp[ApiId].removed
        /\ ~root[st[p].dataDir]

(***************************************************************************)
(* Claims about direct stop() and initdb() calls (SpecApi).                *)
(***************************************************************************)
\* the call was made on a root directory without the sub-directory of the
\* version, and has not checked it yet
StopOfUnversioned(s) ==
    /\ sp[s].pc = "stat" /\ sp[s].path.depth = 0
    /\ sub[sp[s].path.dir] = "absent"

\* C8: stop() on a root directory with no sub-directory named after the
\* version fails at its first step with the error of the validity check,
\* having run no query, no server-stop command and no removal, with the
\* filesystem and the servers unchanged; the failed call does nothing more.
C8_StopOfUnversionedFails ==
    [][\A s \in CallIds :
          /\ (StopOfUnversioned(s) /\ sp'[s] # sp[s])
                => /\ sp'[s].pc = "failed"
                   /\ sp'[s].err = "invalid data directory"
                   /\ sp'[s].first /\ ~sp'[s].stopIssued /\ ~sp'[s].removed
                   /\ UNCHANGED <<fsVars, srvVars>>
          /\ (sp[s].pc = "failed" /\ sp[s].err = "invalid data directory")
                => sp'[s] = sp[s]]_vars

\* a direct stop() failed on a root directory that exists and holds no
\* sub-directory of the version
C8_Witness ==
    /\ sp[ApiId].pc = "failed" /\ sp[ApiId].err = "invalid data directory"
    /\ sp[ApiId].path.depth = 1
    /\ root[sp[ApiId].path.dir] /\ sub[sp[ApiId].path.dir] = "absent"
    /\ marker[sp[ApiId].path.dir] = Me

\* the call is about to make or to initialize the sub-path of a directory
\* that holds a cluster
InitdbOfCluster(i) ==
    /\ ic[i].pc \in {"mkdir", "tool"}
    /\ root[ic[i].dir] /\ sub[ic[i].dir] = "cluster"

\* C9: every step of initdb(dataDir) on a directory whose sub-path holds a
\* cluster leaves the filesystem unchanged (the cluster, its configuration
\* and the NEW marker, present or removed), the step of the tool fails the
\* call, and the failed call does nothing more.
C9_InitdbOfClusterFails ==
    [][\A i \in CallIds :
          /\ (InitdbOfCluster(i) /\ ic'[i] # ic[i])
                => /\ UNCHANGED fsVars
                   /\ ic'[i].pc = IF ic[i].pc = "mkdir" THEN "tool" ELSE "failed"
          /\ ic[i].pc = "failed" => ic'[i] = ic[i]]_vars

\* initdb(dataDir) failed on a directory that was adopted before: the cluster
\* and its configuration are as they were, and the marker has not come back
C9_Witness ==
    /\ ic[ApiId].pc = "failed"
    /\ sub[ic[ApiId].dir] = "cluster" /\ conf[ic[ApiId].dir] = 1
    /\ marker[ic[ApiId].dir] = "none"

(***************************************************************************)
(* Claims about the adoption of an idle directory (Spec).                  *)
(***************************************************************************)
\* the call was made without dataDir
FromPool(p) == st[p].pc # "off" /\ st[p].optDir = NoDir

\* C10 as stated: a start() without dataDir adopts each directory that was
\* idle when it was called, whatever other directories exist.
C10_AdoptsThatExactDirectory ==
    \A p \in Procs : \A d \in st[p].idleAtCall :
        (FromPool(p) /\ HasAcquired(p)) => st[p].dataDir = d

\* C10: a start() without dataDir called when idle directories exist (no
\* other process acting during its scan) adopts one of them, that exact one
\* when it is the only one; the NEW marker of the adopted directory is gone,
\* and the call runs no initdb() of its own.
C10_AdoptsAnIdleDirectory ==
    \A p \in Procs :
        (FromPool(p) /\ st[p].idleAtCall # {})
        => /\ st[p].pc # "initdb"
           /\ ic[InlineId(p)].pc = "off"
           /\ HasAcquired(p)
                => /\ st[p].how = "scan"
                   /\ st[p].dataDir \in st[p].idleAtCall
                   /\ marker[st[p].dataDir] = "none"

\* a start() without dataDir adopted one of two idle directories
C10_Witness ==
    \E p \in Procs :
        /\ FromPool(p) /\ HasAcquired(p) /\ st[p].how = "scan"
        /\ Cardinality(st[p].idleAtCall) = 2
        /\ marker[st[p].dataDir] = "none"
        /\ \E e \in st[p].idleAtCall : e # st[p].dataDir /\ marker[e] = Me

(***************************************************************************)
(* Claims about the idle marker and explicit data directories (Spec).      *)
(***************************************************************************)
\* C11: a root directory whose NEW marker is present has had no server
\* started against it by any start() call, however the call came by the
\* directory (scan, fallback, or dataDir given).
C11_MarkerMeansNeverStarted ==
    \A d \in Dirs : (root[d] /\ marker[d] # "none") => launched[d] = {}

(***************************************************************************)
(* Claims about the host, the port and the DSN (SpecNet).                  *)
(***************************************************************************)
\* start() call p has returned its object
HasReturned(p) == st[p].pc = "done" /\ st[p].ret = "returned"

\* C12: a start() called with a custom host address returns the DSN
\* postgresql://<host>:<port>/test with that address as host, and passes the
\* same address to the watcher and to the stop() it returned.
C12_CustomHostInDsn ==
    \A p \in Procs :
        (HasReturned(p) /\ st[p].optHost = "custom")
        => /\ Dsn(p).kind = "tcp" /\ Dsn(p).host = "custom"
           /\ Watcher(p).pc # "off" => Watcher(p).host = "custom"
           /\ Returned(p).pc # "off" => Returned(p).host = "custom"

\* C13: a start() called with a host and a port uses the supplied port (for
\* the server, the watcher and the DSN) and allocates none; a port is
\* allocated only when none is supplied.
C13_SuppliedPortIsUsed ==
    \A p \in Procs :
        (HasReturned(p) /\ st[p].optHost # "none" /\ st[p].optPort = "supplied")
        => /\ st[p].port = "supplied"
           /\ Dsn(p).kind = "tcp" /\ Dsn(p).port = "supplied"
           /\ Watcher(p).pc # "off" => Watcher(p).port = "supplied"

\* C14: a start() with host true and no port returns the DSN
\* postgresql://127.0.0.1:<p>/test, <p> the allocated port, which is also the
\* port of the server and of the watcher; a start() with no host returns
\* postgresql:///test?host=<encoded versioned sub-path> and allocates no port.
C14_DsnFormats ==
    \A p \in Procs :
        HasReturned(p)
        => /\ (st[p].optHost = "true" /\ st[p].optPort = "undefined")
                => /\ Dsn(p) = [kind |-> "tcp", host |-> "127.0.0.1",
                                port |-> "allocated"]
                   /\ Watcher(p).pc # "off" => Watcher(p).port = "allocated"
           /\ st[p].optHost = "none"
                => /\ Dsn(p) = [kind |-> "socket",
                                host |-> [encoded |-> [dir |-> st[p].dataDir,
                                                       depth |-> 1]]]
                   /\ st[p].port = "undefined"

\* a start() with host true and no port has returned its DSN, and its
\* watcher has run to its end
C14_Witness ==
    \E p \in Procs :
        /\ HasReturned(p) /\ st[p].optHost = "true" /\ st[p].optPort = "undefined"
        /\ Dsn(p).kind = "tcp" /\ Watcher(p).pc = "done"

(***************************************************************************)
(* Claims about the options of stop() (SpecApi).                           *)
(***************************************************************************)
\* the call asked for no wait: force is set, or the timeout is not positive
Immediate(s) == sp[s].pc # "off" /\ (sp[s].force \/ sp[s].timeout <= 0)

\* C15: a stop() with force set, or with timeout <= 0, never enters the
\* drain loop: it has run no connection-count query and slept no drain delay
\* when it issues the server-stop command, and the command stops a running
\* server whatever the number of connected clients.
C15_ForceSkipsDrain ==
    /\ [](\A s \in CallIds :
            Immediate(s) => /\ sp[s].pc # "drain"
                            /\ sp[s].first /\ sp[s].slept = 0
                            /\ sp[s].err \notin {"psql: server not accepting",
                                                 "psql: no database test"})
    /\ [][\A s \in CallIds :
            ( /\ Immediate(s) /\ sp[s].pc = "stopping" /\ sp'[s] # sp[s]
              /\ root[sp[s].path.dir] /\ server[sp[s].path.dir] = "up" )
            => /\ sp'[s].stopIssued
               /\ server'[sp[s].path.dir] = "stopping"
               /\ clients'[sp[s].path.dir] = 0]_vars

\* a forced stop() stopped a server that had served a client, with no query
C15_Witness ==
    /\ sp[ApiId].force /\ sp[ApiId].timeout > 0
    /\ sp[ApiId].stopIssued /\ sp[ApiId].err = "none"
    /\ sp[ApiId].first
    /\ served[sp[ApiId].path.dir]

\* C16: a stop() with keep set changes no file in any of its steps, and once
\* it has completed the root directory and the versioned sub-path exist;
\* without keep, the step that removes removes the whole root directory (with
\* the sub-path and the marker), not only the versioned sub-path.
C16_KeepRemovesNothing ==
    /\ [](\A s \in CallIds :
            (sp[s].pc = "done" /\ sp[s].keep)
            => /\ ~sp[s].removed
               /\ root[sp[s].path.dir] /\ sub[sp[s].path.dir] # "absent")
    /\ [][\A s \in CallIds :
            /\ (sp[s].pc # "off" /\ sp[s].keep /\ sp'[s] # sp[s])
                  => UNCHANGED fsVars
            /\ (sp[s].pc # "off" /\ ~sp[s].keep /\ sp[s].path.depth = 1
                /\ ~sp[s].removed /\ sp'[s].removed)
                  => /\ ~root'[sp[s].path.dir]
                     /\ sub'[sp[s].path.dir] = "absent"
                     /\ marker'[sp[s].path.dir] = "none"]_vars

\* a stop() with keep has stopped the server and left the directory
C16_Witness ==
    /\ sp[ApiId].pc = "done" /\ sp[ApiId].keep /\ sp[ApiId].stopIssued
    /\ root[sp[ApiId].path.dir] /\ sub[sp[ApiId].path.dir] = "cluster"

\* C17: stop() removes the root directory only once the server has stopped:
\* a call that has removed the directory finds the server down, and a call
\* whose server-stop command failed has removed nothing.
C17_RemovalAfterServerStopped ==
    \A s \in CallIds :
        /\ sp[s].removed => server[sp[s].path.dir] = "down"
        /\ sp[s].err = "pg_ctl stop" => (~sp[s].removed /\ sp[s].pc = "failed")

(***************************************************************************)
(* Claims about initdb() and the marker (SpecApi).                         *)
(***************************************************************************)
\* C18: a root directory that holds the NEW marker of the current user and
\* the sub-path of the current version (what a scanning start() adopts) has
\* a completely initialized cluster there: the tool has returned and the
\* configuration has been patched.
C18_MarkerMeansInitialized ==
    \A d \in Dirs :
        (root[d] /\ marker[d] = Me /\ sub[d] # "absent")
        => (sub[d] = "cluster" /\ conf[d] >= 1)

(***************************************************************************)
(* Claims about the drain loop of stop() (SpecApi, Spec).                  *)
(***************************************************************************)
\* the call is in its drain loop and the server cannot answer its query
SampleFails(s) ==
    /\ sp[s].pc = "drain"
    /\ server[sp[s].path.dir] # "up" \/ ~testdb[sp[s].path.dir]

\* C19: a connection-count query that fails during draining fails stop() at
\* once: that step ends the call with the error, with no file and no server
\* changed; the failed call takes no further step, so it runs no other
\* query, issues no server-stop command and removes nothing.
C19_FailedQueryFailsStop ==
    /\ [](\A s \in CallIds :
            sp[s].err \in {"psql: server not accepting", "psql: no database test"}
            => (sp[s].pc = "failed" /\ ~sp[s].stopIssued /\ ~sp[s].removed))
    /\ [][\A s \in CallIds :
            /\ (SampleFails(s) /\ sp'[s] # sp[s])
                  => /\ sp'[s].pc = "failed"
                     /\ sp'[s].err \in {"psql: server not accepting",
                                        "psql: no database test"}
                     /\ UNCHANGED <<fsVars, srvVars>>
            /\ sp[s].pc = "failed" => sp'[s] = sp[s]]_vars

\* a stop() slept its delay and failed on the query that followed; the
\* directory and its cluster are still there
C19_Witness ==
    /\ sp[ApiId].pc = "failed"
    /\ sp[ApiId].err = "psql: server not accepting"
    /\ sp[ApiId].slept > 0
    /\ ~sp[ApiId].stopIssued
    /\ root[sp[ApiId].path.dir] /\ sub[sp[ApiId].path.dir] = "cluster"

\* C20: the watcher of a start() call has taken no connection-count sample,
\* and has issued no server-stop command, while that start() has yet to
\* issue its server start command.
C20_NoSampleBeforeLaunch ==
    \A p \in Procs :
        st[p].pc = "launch"
        => (Watcher(p).first /\ ~Watcher(p).stopIssued)

(***************************************************************************)
(* Claims about the createdb loop of start() (Spec, SpecDb).               *)
(***************************************************************************)
\* C21: with failures that are not 'already exists', start() attempts
\* createdb at most 5 times, sleeps 100 ms after each failed attempt but the
\* last, stops at the first success, and after the fifth failure throws the
\* error of that fifth attempt.
C21_CreatedbAtMostFiveAttempts ==
    /\ [](\A p \in Procs :
            /\ st[p].i <= CreatedbAttempts
            /\ st[p].naps = Min(st[p].i, CreatedbAttempts - 1)
            /\ st[p].pc = "createdb" => st[p].i < CreatedbAttempts
            /\ st[p].pc = "done" => (st[p].i < CreatedbAttempts /\ st[p].db # "none")
            /\ st[p].ret = "thrown"
                 <=> (st[p].i = CreatedbAttempts /\ st[p].pc = "failed")
            /\ st[p].ret = "thrown"
                 => st[p].lastError = [msg |-> "could not connect",
                                       attempt |-> CreatedbAttempts])
    /\ [][\A p \in Procs :
            /\ ( /\ st[p].pc = "createdb"
                 /\ server[st[p].dataDir] = "up" /\ ~testdb[st[p].dataDir]
                 /\ st'[p] # st[p] )
               => (st'[p].pc = "done" /\ st'[p].i = st[p].i /\ testdb'[st[p].dataDir])
            /\ st[p].pc \in {"done", "failed"} => st'[p].i = st[p].i]_vars

\* start() threw after five failed attempts and four sleeps
C21_Witness ==
    \E p \in Procs :
        /\ st[p].pc = "failed" /\ st[p].ret = "thrown"
        /\ st[p].i = CreatedbAttempts /\ st[p].naps = CreatedbAttempts - 1

(***************************************************************************)
(* SpecDb: two start() calls with a data directory and a direct stop(), so *)
(* that a start() meets a cluster that already holds the database `test`.  *)
(***************************************************************************)
InitDb == InitWith({"idle", "used", "running"})

NextDb ==
    \/ CallStart(1, InitialDirs, {<<0>>}, {FALSE})
    \/ CallStart(2, InitialDirs, {<<0>>}, {FALSE})
    \/ \E p \in Procs : StartExplicit(p) \/ StartRun(p)
    \/ CallStop(InitialDirs, BOOLEAN, {<<0>>, <<1>>}, {0}, {FALSE})
    \/ Stop(ApiId)
    \/ \E d \in Dirs : ServerReady(d) \/ ServerExit(d)

SpecDb == InitDb /\ [][NextDb]_vars

\* C22: a createdb attempt that fails with 'already exists' ends the loop as a
\* success, on whichever attempt it occurs: it is not counted as a failure,
\* no sleep and no further attempt follows, nothing is thrown, and start()
\* returns its descriptor.
C22_AlreadyExistsIsSuccess ==
    /\ [][\A p \in Procs :
            ( /\ st[p].pc = "createdb"
              /\ server[st[p].dataDir] = "up" /\ testdb[st[p].dataDir]
              /\ st'[p] # st[p] )
            => /\ st'[p].pc = "done" /\ st'[p].ret = "returned"
               /\ st'[p].db = "exists"
               /\ st'[p].i = st[p].i /\ st'[p].naps = st[p].naps
               /\ st'[p].lastError = st[p].lastError
               /\ testdb' = testdb]_vars
    /\ [][\A p \in Procs :
            st[p].db = "exists"
            => (st'[p] = st[p] /\ st[p].pc = "done" /\ st[p].ret = "returned")]_vars

\* 'already exists' came after earlier attempts had failed to connect
C22_Witness ==
    \E p \in Procs :
        /\ st[p].db = "exists" /\ st[p].ret = "returned"
        /\ st[p].i > 0 /\ st[p].lastError.msg = "could not connect"

(***************************************************************************)
(* Claims about the acquisition of the data directory (Spec, SpecPool).    *)
(***************************************************************************)
\* C23: a start() without dataDir that adopted or created its directory has
\* spawned exactly one pre-warm process, and spawned it only once the NEW
\* marker of its directory was removed; before that, and in a start() with a
\* dataDir at any time, no pre-warm process is spawned.
C23_OnePrewarmAfterAcquisition ==
    /\ [](\A p \in Procs :
            /\ st[p].prewarms <= 1
            /\ (st[p].optDir = NoDir /\ HasAcquired(p))
                 => (st[p].prewarms = 1 /\ ic[PrewarmId(p)].pc # "off")
            /\ (st[p].optDir = NoDir /\ st[p].pc \in {"off", "glob", "scan", "owner", "rm", "initdb"})
                 => (st[p].prewarms = 0 /\ ic[PrewarmId(p)].pc = "off")
            /\ st[p].optDir # NoDir
                 => (st[p].prewarms = 0 /\ ic[PrewarmId(p)].pc = "off"))
    /\ [][\A p \in Procs :
            (ic[PrewarmId(p)].pc = "off" /\ ic'[PrewarmId(p)].pc # "off")
            => /\ st[p].pc \in {"rm", "initdb"}
               /\ st'[p].pc = "launch"
               /\ marker'[st'[p].dataDir] = "none"]_vars

\* a start() that adopted an idle directory, with its pre-warm process at work
C23_Witness ==
    \E p \in Procs :
        /\ st[p].optDir = NoDir /\ st[p].how = "scan" /\ st[p].pc = "done"
        /\ st[p].prewarms = 1
        /\ ic[PrewarmId(p)].pc \notin {"off", "returned"}

\* C24: the scan of start() adopts a candidate only while its sub-path for the
\* current PostgreSQL version is a directory and its NEW marker is there and
\* owned by the current user; a step of the scan changes nothing in a
\* directory that is not of that kind; and a scan that met no such directory
\* ends in a directory created by initdb().
C24_ScanSkipsUnclaimable ==
    [][\A p \in Procs :
          /\ (st[p].pc = "rm" /\ st'[p].pc = "launch")
               => (st[p].cand \in Claimable /\ st'[p].dataDir = st[p].cand)
          /\ (st[p].pc \in {"glob", "scan", "owner", "rm"} /\ st'[p] # st[p])
               => \A d \in Dirs \ Claimable :
                     /\ root'[d] = root[d] /\ sub'[d] = sub[d]
                     /\ subOwner'[d] = subOwner[d] /\ conf'[d] = conf[d]
                     /\ marker'[d] = marker[d]
          /\ (st[p].pc = "scan" /\ st[p].todo = {} /\ st'[p] # st[p])
               => st'[p].pc = "initdb"]_vars

\* the steps of the initdb() that start() p awaits
InlineStep(p) == ic'[InlineId(p)] # ic[InlineId(p)]

\* everything on disk but directory d is left as it is
OthersUntouched(d) ==
    /\ nextDir' = nextDir
    /\ \A e \in Dirs \ {d} :
          /\ root'[e] = root[e] /\ sub'[e] = sub[e] /\ subOwner'[e] = subOwner[e]
          /\ conf'[e] = conf[e] /\ marker'[e] = marker[e]

\* C25: a start() with a dataDir runs initdb(dataDir) in place exactly when
\* the sub-path of the version is absent or not owned by the current user;
\* otherwise it takes the directory as it is: no initdb(), the NEW marker
\* neither removed nor created; and in both cases it scans nothing and touches
\* no other directory.
C25_ExplicitDirInitializedOnlyIfNeeded ==
    /\ [][\A p \in Procs :
            (st[p].pc = "explicit" /\ st'[p] # st[p])
            => LET d == st[p].optDir
                   owned == root[d] /\ sub[d] # "absent" /\ subOwner[d] = Me
               IN /\ ~owned <=> ( /\ st'[p].pc = "initdb_in_place"
                                  /\ ic'[InlineId(p)] = [pc |-> "mkdir", dir |-> d] )
                  /\ owned => ( /\ st'[p].pc = "launch" /\ st'[p].dataDir = d
                                /\ st'[p].how = "adopted"
                                /\ ic' = ic )
                  /\ UNCHANGED <<fsVars, nextDir>>]_vars
    /\ [][\A p \in Procs :
            (st[p].optDir # NoDir /\ InlineStep(p))
            => (ic'[InlineId(p)].dir = st[p].optDir /\ OthersUntouched(st[p].optDir))]_vars
    /\ [](\A p \in Procs :
            /\ st[p].optDir # NoDir
                 => ( /\ st[p].pc \notin {"glob", "scan", "owner", "rm", "initdb"}
                      /\ st[p].todo = {} /\ st[p].cand = NoDir
                      /\ st[p].how \in {"none", "adopted", "initialized"} )
            /\ st[p].how = "adopted" => ic[InlineId(p)].pc = "off")

\* a start() that took an initialized directory as it was, NEW marker and all
C25_Witness ==
    \E p \in Procs :
        /\ st[p].optDir # NoDir /\ st[p].how = "adopted" /\ st[p].pc = "launch"
        /\ marker[st[p].dataDir] = Me
        /\ ic[InlineId(p)].pc = "off"

(***************************************************************************)
(* SpecBg: one start() with a watcher, its pre-warm process and the        *)
(* server.  Only what start() itself awaits is scheduled fairly: its own   *)
(* steps and the initdb() it calls.  The pre-warm process and the watcher  *)
(* are processes of their own, which may never run, stop halfway or fail.  *)
(***************************************************************************)
NextBg ==
    \/ CallStart(1, {NoDir} \cup InitialDirs, {<<1>>, <<>>}, BOOLEAN)
    \/ Start(1)
    \/ Initdb(InlineId(1))
    \/ Initdb(PrewarmId(1))
    \/ Stop(WatcherId(1))
    \/ \E d \in Dirs : ServerReady(d) \/ ServerExit(d)

SpecBg ==
    /\ Init /\ [][NextBg]_vars
    /\ WF_vars(Start(1))
    /\ WF_vars(Initdb(InlineId(1)))

\* start() p is at one of its steps
Running(p) == st[p].pc \notin {"off", "done", "failed"}

\* start() p has its result: the descriptor or an error
Settled(p) == st[p].pc \in {"done", "failed"}

\* C26: start() never waits for the pre-warm process or the watcher: whatever
\* state they are in, the next step of start() (or of the initdb() it awaits)
\* can be taken; and start() reaches its result, success or error, in every
\* behaviour, also those in which the two processes never run, never finish
\* or fail.
C26_StartNeverWaits ==
    /\ [](Running(1) => ENABLED (Start(1) \/ Initdb(InlineId(1))))
    /\ (Running(1) ~> Settled(1))

\* start() returned while its pre-warm process and its watcher had not taken
\* a step
C26_Witness ==
    /\ HasReturned(1)
    /\ ic[PrewarmId(1)].pc = "mkdtemp"
    /\ sp[WatcherId(1)].pc = "stat"

=============================================================================
